---- MODULE Spec2Model ----
(***************************************************************************)
(* Residential solar model: sim.py (driver) and solarModel.py (Region and  *)
(* House).                                                                 *)
(*                                                                         *)
(* Numbers.  Python floats and pandas float64 cells are modelled as exact  *)
(* rationals <<n, d>> in lowest terms with d > 0; float rounding is not    *)
(* modelled.  The IEEE special values that numpy division produces are     *)
(* <<0, 0>> (nan), <<1, 0>> (inf) and <<-1, 0>> (-inf); signed zeros are   *)
(* not distinguished.  Energy values (usage, production, demand) are whole *)
(* numbers.  Timestamps are the positions 1..NumHours of the hourly grid.  *)
(*                                                                         *)
(* Data frames.  A pandas DataFrame is [columns |-> labels, rows |-> seq   *)
(* of tuples]; a column is found by its label, as pandas finds it.         *)
(*                                                                         *)
(* Reference data.  The csv files are read anew for every Region and House *)
(* and do not change during a run: `files` holds their content.  The       *)
(* location only selects the files; its lookups are not modelled.          *)
(***************************************************************************)
EXTENDS Integers, Sequences, FiniteSets, TLC

\* ------------------------------------------------------------------ bounds
NumHours == 2          \* hours of the representative year (8760 in the data)
MaxHouses == 2         \* largest household count the census lookup returns
MaxUsage == 2          \* largest hourly usage of a household
MaxProd == 3           \* largest hourly production of a solar installation
MaxHorizon == 2        \* largest time horizon given on the command line
NumWholesaleHours == 4 \* hours of the grid in the wholesale densification

Hours == 1..NumHours

\* ----------------------------------------------------------------- numbers
RECURSIVE GCD(_, _)
GCD(a, b) == IF b = 0 THEN a ELSE GCD(b, a % b)

Abs(x) == IF x < 0 THEN -x ELSE x

\* n/d in lowest terms, d > 0 (d # 0 is required)
Norm(n, d) ==
  LET g == GCD(Abs(n), Abs(d))
      s == IF d < 0 THEN -1 ELSE 1
  IN  <<(s * n) \div g, (s * d) \div g>>

R(n) == <<n, 1>>
NaN == <<0, 0>>
Inf == <<1, 0>>
NegInf == <<-1, 0>>
IsFinite(x) == x[2] # 0
IsNaN(x) == x = NaN

FNeg(x) == <<-x[1], x[2]>>

\* x + y, x - y, x * y on finite values
FAdd(x, y) ==
  LET g == GCD(x[2], y[2])
      l == (x[2] \div g) * y[2]
  IN  Norm(x[1] * (l \div x[2]) + y[1] * (l \div y[2]), l)

FSub(x, y) == FAdd(x, FNeg(y))

FMul(x, y) ==
  LET g1 == GCD(Abs(x[1]), y[2])
      g2 == GCD(Abs(y[1]), x[2])
  IN  Norm((x[1] \div g1) * (y[1] \div g2), (x[2] \div g2) * (y[2] \div g1))

FLeq(x, y) == x[1] * y[2] <= y[1] * x[2]

\* x / y as numpy divides float64 arrays: no exception, a zero divisor gives
\* nan for 0/0 and inf or -inf otherwise
NpDiv(x, y) ==
  IF IsNaN(x) \/ IsNaN(y) THEN NaN
  ELSE IF ~IsFinite(x)
       THEN IF ~IsFinite(y) THEN NaN
            ELSE IF y[1] < 0 THEN FNeg(x) ELSE x
  ELSE IF ~IsFinite(y) THEN R(0)
  ELSE IF y[1] = 0
       THEN IF x[1] = 0 THEN NaN
            ELSE IF x[1] > 0 THEN Inf ELSE NegInf
  ELSE FMul(x, Norm(y[2], y[1]))

\* x / y of Python floats for y # 0; Python raises ZeroDivisionError for
\* y = 0, which the caller decides before dividing
PyDiv(x, y) == FMul(x, Norm(y[2], y[1]))

\* int(x) of a finite float: truncation toward zero
PyInt(x) ==
  IF x[1] >= 0 THEN x[1] \div x[2] ELSE -((-x[1]) \div x[2])

RECURSIVE SumInt(_)
SumInt(s) == IF s = <<>> THEN 0 ELSE Head(s) + SumInt(Tail(s))

RECURSIVE SumF(_)
SumF(s) == IF s = <<>> THEN R(0) ELSE FAdd(Head(s), SumF(Tail(s)))

\* ------------------------------------------------------- ssa_to_solar_pen
\* The product of the literals of ssa_to_solar_pen other than ssa,
\*   145580383000 * (300286/12801989) * 0.8 * (1/10402) * (1/138058)
\* = 1.90227, kept to two significant digits: the literals exceed the
\* integers of the model checker.
SsaFactor == <<19, 10>>

ssa_to_solar_pen(ssa) == FMul(SsaFactor, ssa)

\* ------------------------------------------------------ annual_penetration
\* annual_penetration with the step taken over time_horizon + 1 years
annual_penetration_step(initial_ssa, final_ssa, time_horizon) ==
  LET initial_pen == ssa_to_solar_pen(initial_ssa)
      final_pen == ssa_to_solar_pen(final_ssa)
  IN  [raised |-> FALSE,
       pen_list |->
         [y \in 1..(time_horizon + 1) |->
            FAdd(FMul(PyDiv(FSub(final_pen, initial_pen),
                            R(time_horizon + 1)),
                      R(y - 1)),
                 initial_pen)]]

\* range(time_horizon + 1) is empty for a negative horizon; for horizon 0 the
\* first iteration divides by zero, which raises ZeroDivisionError in Python
annual_penetration(initial_ssa, final_ssa, time_horizon) ==
  LET initial_pen == ssa_to_solar_pen(initial_ssa)
      final_pen == ssa_to_solar_pen(final_ssa)
      raises == time_horizon + 1 > 0 /\ time_horizon = 0
  IN  [raised |-> raises,
       pen_list |->
         IF raises THEN <<>>
         ELSE [y \in 1..(time_horizon + 1) |->
                 FAdd(FMul(PyDiv(FSub(final_pen, initial_pen),
                                 R(time_horizon)),
                           R(y - 1)),
                      initial_pen)]]

\* ------------------------------------------------------------- data frames
None == [columns |-> <<>>, rows |-> <<>>]

HasCol(f, label) == \E i \in 1..Len(f.columns) : f.columns[i] = label

ColIdx(f, label) == CHOOSE i \in 1..Len(f.columns) : f.columns[i] = label

\* f[label] as a list
Column(f, label) == [r \in 1..Len(f.rows) |-> f.rows[r][ColIdx(f, label)]]

\* pd.merge(left, right, how='inner', on='time'); 'time' is the first column
\* of both frames and the other labels are distinct
RECURSIVE MergeRows(_, _)
MergeRows(lrows, rrows) ==
  IF lrows = <<>> THEN <<>>
  ELSE LET l == Head(lrows)
           m == SelectSeq(rrows, LAMBDA r : r[1] = l[1])
       IN  [k \in 1..Len(m) |-> l \o Tail(m[k])] \o MergeRows(Tail(lrows), rrows)

Merge(left, right) ==
  [columns |-> left.columns \o Tail(right.columns),
   rows |-> MergeRows(left.rows, right.rows)]

\* ------------------------------------------------------------------- House
\* House.get_elec_prod: None without solar, else the production file
get_elec_prod(has_solar, prod_file) ==
  IF ~has_solar THEN None
  ELSE [columns |-> <<"time", "elec_prod">>, rows |-> prod_file]

\* get_elec_demand without the dissipation of excess production
get_elec_demand_nofloor(elec_prod, usage) ==
  IF elec_prod = None
  THEN [raised |-> FALSE, alias |-> TRUE, frame |-> None,
        usage_after |-> [usage EXCEPT !.columns = <<"time", "elec_demand">>]]
  ELSE LET merged == Merge(usage, elec_prod)
           u == Column(merged, "usage")
           p == Column(merged, "elec_prod")
       IN  [raised |-> FALSE, alias |-> FALSE,
            frame |-> [columns |-> <<"time", "elec_demand">>,
                       rows |-> [r \in 1..Len(merged.rows) |->
                                   <<merged.rows[r][1], u[r] - p[r]>>]],
            usage_after |-> usage]

\* House.get_elec_demand on the frame `usage` the Region shares with all its
\* Houses.  Without solar the shared frame itself is relabelled and returned
\* (alias); with solar a new frame is computed.  raised: KeyError, the merged
\* frame has no column 'usage'.
get_elec_demand(elec_prod, usage) ==
  IF elec_prod = None
  THEN [raised |-> FALSE, alias |-> TRUE, frame |-> None,
        usage_after |-> [usage EXCEPT !.columns = <<"time", "elec_demand">>]]
  ELSE LET merged == Merge(usage, elec_prod)
           ok == HasCol(merged, "usage") /\ HasCol(merged, "elec_prod")
           u == Column(merged, "usage")
           p == Column(merged, "elec_prod")
           net == [r \in 1..Len(merged.rows) |-> u[r] - p[r]]
           floored == [r \in 1..Len(merged.rows) |->
                         IF net[r] <= 0 THEN 0 ELSE net[r]]
       IN  [raised |-> ~ok, alias |-> FALSE,
            frame |-> IF ~ok THEN None
                      ELSE [columns |-> <<"time", "elec_demand">>,
                            rows |-> [r \in 1..Len(merged.rows) |->
                                        <<merged.rows[r][1], floored[r]>>]],
            usage_after |-> usage]

\* House.__init__; the attribute usage_data of every House is the shared frame
HouseInit(has_solar, usage, prod_file) ==
  LET prod == get_elec_prod(has_solar, prod_file)
      dem == get_elec_demand(prod, usage)
  IN  [raised |-> dem.raised,
       usage_after |-> dem.usage_after,
       house |-> [has_solar |-> has_solar,
                  elec_prod |-> prod,
                  elec_demand |-> [alias |-> dem.alias, frame |-> dem.frame]]]

\* ---------------------------------------------------- get_wholesale_prices
\* the left merge of the hourly grid with the sparse series leaves NaN at the
\* hours that carry no sparse point
NanCheck(trade, t) == ~\E k \in 1..Len(trade) : trade[k][1] = t

\* one iteration of the loop over the hourly rows; ct is trade_price_ct
\* (0-based as in the code), raised: IndexError on trade_prices
WholesaleRow(trade, t, ct) ==
  LET n == Len(trade)
      ct2 == IF NanCheck(trade, t) THEN ct
             ELSE IF ct = n - 1 THEN ct
             ELSE ct + 1
      inb == ct2 >= 0 /\ ct2 < n
  IN  [raised |-> ~inb,
       ct |-> ct2,
       price |-> IF inb THEN trade[ct2 + 1][2] ELSE NaN]

RECURSIVE WholesaleLoop(_, _, _, _, _)
WholesaleLoop(trade, nhours, t, ct, out) ==
  IF t > nhours THEN [raised |-> FALSE, prices |-> out]
  ELSE LET s == WholesaleRow(trade, t, ct)
       IN  IF s.raised THEN [raised |-> TRUE, prices |-> out]
           ELSE WholesaleLoop(trade, nhours, t + 1, s.ct, Append(out, s.price))

get_wholesale_prices(trade, nhours) == WholesaleLoop(trade, nhours, 1, 0, <<>>)

\* ------------------------------------------------------------------ Region
\* get_fixed_prices: (fixed_price_mo * 12) / 365 * num_houses at every hour
get_fixed_prices(fixed_mo, num_houses) ==
  LET fixed_price_hr == PyDiv(FMul(fixed_mo, R(12)), R(365))
      total_fixed_price == FMul(fixed_price_hr, R(num_houses))
  IN  [t \in Hours |-> total_fixed_price]

get_utility_prices(utility_price) == [t \in Hours |-> utility_price]

get_usage_data(usage_file) ==
  [columns |-> <<"time", "usage">>,
   rows |-> [t \in Hours |-> <<t, usage_file[t]>>]]

\* the solar loop bound rounded to nearest instead of truncated
solar_houses_round(num_houses, solar_pen) ==
  PyInt(FAdd(FMul(R(num_houses), solar_pen), <<1, 2>>))

\* get_num_houses: the household count of the location.  The code returns
\* the fixed count 100 it uses for testing instead of the census count; the
\* model takes the count returned from 0..MaxHouses.
get_num_houses(households) == households

\* create_households: the two loop bounds
solar_houses(num_houses, solar_pen) == PyInt(FMul(R(num_houses), solar_pen))

non_solar_houses(num_houses, solar_pen) ==
  num_houses - solar_houses(num_houses, solar_pen)

\* house.elec_demand of a House of the Region whose shared frame is `usage`
HouseDemandFrame(h, usage) == IF h.elec_demand.alias THEN usage ELSE h.elec_demand.frame

\* the sum of the Houses' demand, hour by hour
RECURSIVE total_demand(_, _, _)
total_demand(households, usage, acc) ==
  IF households = <<>> THEN acc
  ELSE LET d == Column(HouseDemandFrame(Head(households), usage), "elec_demand")
       IN  total_demand(Tail(households), usage, [t \in Hours |-> acc[t] + d[t]])

\* get_region_data with the wholesale price left in $/MWh
get_region_data_noscale(wholesale, utility, fixed, households, usage) ==
  LET td == total_demand(households, usage, [t \in Hours |-> 0])
  IN  [wholesale_prices |-> wholesale,
       utility_prices |-> utility,
       fixed_prices |-> fixed,
       total_demand |-> td,
       profit |-> [t \in Hours |->
                     FAdd(FMul(R(td[t]), FSub(utility[t], wholesale[t])),
                          fixed[t])]]

\* get_region_data: total demand, wholesale price in $/kWh, hourly profit
get_region_data(wholesale, utility, fixed, households, usage) ==
  LET td == total_demand(households, usage, [t \in Hours |-> 0])
      w == [t \in Hours |-> PyDiv(wholesale[t], R(1000))]
  IN  [wholesale_prices |-> w,
       utility_prices |-> utility,
       fixed_prices |-> fixed,
       total_demand |-> td,
       profit |-> [t \in Hours |->
                     FAdd(FMul(R(td[t]), FSub(utility[t], w[t])), fixed[t])]]

\* --------------------------------------------------------- calculate_impact
\* calculate_impact with the solar column divided by number_houses
calculate_impact_all(td) ==
  LET n == Len(td.profit)
      profit_loss == [y \in 1..n |-> FSub(td.profit[1], td.profit[y])]
      variable == [y \in 1..n |-> NpDiv(profit_loss[y], td.demand[y])]
  IN  [td EXCEPT
         !.profit_loss = profit_loss,
         !.fixed_increase_all_houses =
            [y \in 1..n |-> NpDiv(profit_loss[y], td.number_houses[y])],
         !.fixed_increase_solar_houses =
            [y \in 1..n |-> NpDiv(profit_loss[y], td.number_houses[y])],
         !.variable_increase =
            [y \in 1..n |-> NpDiv(variable[y], td.price[y])]]

\* the four derived columns; .iloc[0] of an empty column raises IndexError,
\* which the caller decides before calling
calculate_impact(td) ==
  LET n == Len(td.profit)
      profit_loss == [y \in 1..n |-> FSub(td.profit[1], td.profit[y])]
      variable == [y \in 1..n |-> NpDiv(profit_loss[y], td.demand[y])]
  IN  [td EXCEPT
         !.profit_loss = profit_loss,
         !.fixed_increase_all_houses =
            [y \in 1..n |-> NpDiv(profit_loss[y], td.number_houses[y])],
         !.fixed_increase_solar_houses =
            [y \in 1..n |-> NpDiv(profit_loss[y], td.solar_houses[y])],
         !.variable_increase =
            [y \in 1..n |-> NpDiv(variable[y], td.price[y])]]

\* ------------------------------------------------------------------- state
VARIABLES
  argv,        \* ssa_i, ssa_t, time_horizon of the command line
  files,       \* the reference data read from the csv files
  pc,          \* position of the main script
  error,       \* the exception that ended the run, and where it was raised
  pen_list,    \* result of annual_penetration
  time_data,   \* the columns simulation_data collects, then the data frame
  region,      \* the Region under construction, then the Region last built
  usage_data,  \* the frame region.usage_data, shared with every House
  results,     \* the rows written to results.csv
  wp           \* get_wholesale_prices, row by row

vars == <<argv, files, pc, error, pen_list, time_data, region, usage_data,
          results, wp>>

NoError == [exc |-> "", at |-> ""]

NoArgv == [ssa_i |-> R(0), ssa_t |-> R(0), time_horizon |-> 1]

EmptyTimeData ==
  [year |-> <<>>, profit |-> <<>>, number_houses |-> <<>>,
   solar_houses |-> <<>>, demand |-> <<>>, price |-> <<>>,
   profit_loss |-> <<>>, fixed_increase_all_houses |-> <<>>,
   fixed_increase_solar_houses |-> <<>>, variable_increase |-> <<>>]

NoRegionData ==
  [wholesale_prices |-> <<>>, utility_prices |-> <<>>, fixed_prices |-> <<>>,
   total_demand |-> <<>>, profit |-> <<>>]

NoRegion ==
  [solar_pen |-> R(0), num_houses |-> 0, wholesale_prices |-> <<>>,
   utility_prices |-> <<>>, fixed_prices |-> <<>>, households |-> <<>>,
   i |-> 0, j |-> 0, built |-> FALSE, region_data |-> NoRegionData,
   annual_profit |-> R(0), annual_demand |-> 0, utility_price |-> R(0)]

NoFiles ==
  [households |-> 0, usage |-> [t \in Hours |-> 0], prod |-> <<>>,
   trade |-> <<>>, utility |-> R(0), fixed_mo |-> R(0)]

WpIdle == [trade |-> <<>>, row |-> 0, trade_price_ct |-> 0, prices |-> <<>>,
           raised |-> FALSE]

\* ------------------------------------------------------------------ inputs
SsaValues == {R(0), <<1, 4>>, <<1, 2>>, R(1)}

PenValues == {R(0), <<1, 3>>, <<1, 2>>, <<3, 4>>, R(1), <<3, 2>>}

TradePrices == {R(30), R(50)}

\* sparse price series on the grid 1..n: strictly increasing timestamps
SparseSeries(n) ==
  UNION {
    {[k \in 1..Len(ts) |-> <<ts[k], ps[k]>>] :
       ps \in [1..Len(ts) -> TradePrices]} :
    ts \in {t \in UNION {[1..m -> 1..n] : m \in 1..n} :
              \A k \in 1..(Len(t) - 1) : t[k] < t[k + 1]}}

ProdFiles == {[t \in Hours |-> <<t, f[t]>>] : f \in [Hours -> {0, 1, MaxProd}]}

RegionFiles ==
  [households : 0..MaxHouses,
   usage : [Hours -> {0, 1, MaxUsage}],
   prod : ProdFiles,
   trade : {<<<<1, R(30)>>>>, <<<<1, R(30)>>, <<NumHours, R(50)>>>>},
   utility : {<<1, 10>>},
   fixed_mo : {R(10)}]

DriverFiles ==
  [households : 0..MaxHouses,
   usage : [Hours -> {0, MaxUsage}],
   prod : {[t \in Hours |-> <<t, 1>>]},
   trade : {<<<<1, R(30)>>>>},
   utility : {<<1, 10>>},
   fixed_mo : {R(10)}]

\* ----------------------------------------------------------- initial states
\* the main script, started from the command line
Init ==
  /\ argv \in [ssa_i : SsaValues, ssa_t : SsaValues,
               time_horizon : (-1)..MaxHorizon]
  /\ files \in DriverFiles
  /\ pc = "annual_penetration"
  /\ error = NoError
  /\ pen_list = <<>>
  /\ time_data = EmptyTimeData
  /\ region = NoRegion
  /\ usage_data = None
  /\ results = <<>>
  /\ wp = WpIdle

\* simulation_data(loc, pen_list) called on a one-element list
InitRegion ==
  /\ argv = NoArgv
  /\ files \in RegionFiles
  /\ pc = "simulation_data"
  /\ error = NoError
  /\ pen_list \in {<<p>> : p \in PenValues}
  /\ time_data = EmptyTimeData
  /\ region = NoRegion
  /\ usage_data = None
  /\ results = <<>>
  /\ wp = WpIdle

\* get_wholesale_prices on a given sparse series, before its loop
InitWholesale ==
  /\ argv = NoArgv
  /\ files = NoFiles
  /\ pc = "get_wholesale_prices"
  /\ error = NoError
  /\ pen_list = <<>>
  /\ time_data = EmptyTimeData
  /\ region = NoRegion
  /\ usage_data = None
  /\ results = <<>>
  /\ wp \in {[WpIdle EXCEPT !.trade = s] : s \in SparseSeries(NumWholesaleHours)}

\* ----------------------------------------------------------------- actions
Abort(exc, at) ==
  /\ pc' = "aborted"
  /\ error' = [exc |-> exc, at |-> at]

\* sim.py 147: pen_list = annual_penetration(ssa_i, ssa_t, time_horizon)
MainAnnualPenetration ==
  /\ pc = "annual_penetration"
  /\ LET r == annual_penetration(argv.ssa_i, argv.ssa_t, argv.time_horizon)
     IN  IF r.raised
         THEN /\ Abort("ZeroDivisionError", "annual_penetration")
              /\ UNCHANGED pen_list
         ELSE /\ pen_list' = r.pen_list
              /\ pc' = "simulation_data"
              /\ UNCHANGED error
  /\ UNCHANGED <<argv, files, time_data, region, usage_data, results, wp>>

\* Region.__init__ up to create_households (solarModel.py 51-57), for the next
\* solar_pen of the loop of simulation_data
RegionInit ==
  /\ pc = "simulation_data"
  /\ Len(time_data.year) < Len(pen_list)
  /\ LET solar_pen == pen_list[Len(time_data.year) + 1]
         num_houses == get_num_houses(files.households)
         w == get_wholesale_prices(files.trade, NumHours)
     IN  IF w.raised
         THEN /\ Abort("IndexError", "get_wholesale_prices")
              /\ UNCHANGED <<region, usage_data>>
         ELSE /\ region' = [NoRegion EXCEPT
                              !.solar_pen = solar_pen,
                              !.num_houses = num_houses,
                              !.wholesale_prices = w.prices,
                              !.utility_prices = get_utility_prices(files.utility),
                              !.fixed_prices =
                                 get_fixed_prices(files.fixed_mo, num_houses)]
              /\ usage_data' = get_usage_data(files.usage)
              /\ pc' = "create_households"
              /\ UNCHANGED error
  /\ UNCHANGED <<argv, files, pen_list, time_data, results, wp>>

\* one iteration of the first loop of create_households
CreateSolarHouse ==
  /\ pc = "create_households"
  /\ region.i < solar_houses(region.num_houses, region.solar_pen)
  /\ LET h == HouseInit(TRUE, usage_data, files.prod)
     IN  IF h.raised
         THEN /\ Abort("KeyError", "get_elec_demand")
              /\ UNCHANGED <<region, usage_data>>
         ELSE /\ region' = [region EXCEPT
                              !.households = Append(@, h.house),
                              !.i = @ + 1]
              /\ usage_data' = h.usage_after
              /\ UNCHANGED <<pc, error>>
  /\ UNCHANGED <<argv, files, pen_list, time_data, results, wp>>

\* one iteration of the second loop of create_households
CreateNonSolarHouse ==
  /\ pc = "create_households"
  /\ region.i >= solar_houses(region.num_houses, region.solar_pen)
  /\ region.j < non_solar_houses(region.num_houses, region.solar_pen)
  /\ LET h == HouseInit(FALSE, usage_data, files.prod)
     IN  IF h.raised
         THEN /\ Abort("KeyError", "get_elec_demand")
              /\ UNCHANGED <<region, usage_data>>
         ELSE /\ region' = [region EXCEPT
                              !.households = Append(@, h.house),
                              !.j = @ + 1]
              /\ usage_data' = h.usage_after
              /\ UNCHANGED <<pc, error>>
  /\ UNCHANGED <<argv, files, pen_list, time_data, results, wp>>

\* the rest of Region.__init__ (solarModel.py 59-62) and of the loop body of
\* simulation_data (sim.py 64-81)
RegionFinish ==
  /\ pc = "create_households"
  /\ region.i >= solar_houses(region.num_houses, region.solar_pen)
  /\ region.j >= non_solar_houses(region.num_houses, region.solar_pen)
  /\ LET rd == get_region_data(region.wholesale_prices, region.utility_prices,
                               region.fixed_prices, region.households,
                               usage_data)
         annual_profit == SumF(rd.profit)
         annual_demand == SumInt(rd.total_demand)
         utility_price == rd.utility_prices[1]
     IN  /\ region' = [region EXCEPT
                         !.built = TRUE,
                         !.region_data = rd,
                         !.annual_profit = annual_profit,
                         !.annual_demand = annual_demand,
                         !.utility_price = utility_price]
         /\ time_data' = [time_data EXCEPT
                            !.year = Append(@, Len(@)),
                            !.profit = Append(@, annual_profit),
                            !.number_houses = Append(@, R(region.num_houses)),
                            !.solar_houses =
                               Append(@, FMul(R(region.num_houses),
                                              region.solar_pen)),
                            !.demand = Append(@, R(annual_demand)),
                            !.price = Append(@, utility_price)]
  /\ pc' = "simulation_data"
  /\ UNCHANGED <<argv, files, error, pen_list, usage_data, results, wp>>

\* sim.py 83-92: the loop of simulation_data is over, the frame is returned
SimulationDataReturn ==
  /\ pc = "simulation_data"
  /\ Len(time_data.year) = Len(pen_list)
  /\ pc' = "calculate_impact"
  /\ UNCHANGED <<argv, files, error, pen_list, time_data, region, usage_data,
                 results, wp>>

\* sim.py 153: time_data = calculate_impact(time_data)
CalculateImpact ==
  /\ pc = "calculate_impact"
  /\ IF Len(time_data.profit) = 0
     THEN /\ Abort("IndexError", "calculate_impact")
          /\ UNCHANGED time_data
     ELSE /\ time_data' = calculate_impact(time_data)
          /\ pc' = "print_csv"
          /\ UNCHANGED error
  /\ UNCHANGED <<argv, files, pen_list, region, usage_data, results, wp>>

\* sim.py 156: print_csv(time_data); a row of results.csv is the list of the
\* cells of a column
PrintCsv ==
  /\ pc = "print_csv"
  /\ results' = <<time_data.year,
                  time_data.fixed_increase_all_houses,
                  time_data.fixed_increase_solar_houses,
                  time_data.variable_increase>>
  /\ pc' = "done"
  /\ UNCHANGED <<argv, files, error, pen_list, time_data, region, usage_data,
                 wp>>

\* one iteration of the loop of get_wholesale_prices (solarModel.py 142-149)
WholesaleRowStep ==
  /\ pc = "get_wholesale_prices"
  /\ wp.row < NumWholesaleHours
  /\ LET s == WholesaleRow(wp.trade, wp.row + 1, wp.trade_price_ct)
     IN  IF s.raised
         THEN /\ Abort("IndexError", "get_wholesale_prices")
              /\ wp' = [wp EXCEPT !.raised = TRUE]
         ELSE /\ wp' = [wp EXCEPT !.row = @ + 1,
                                  !.trade_price_ct = s.ct,
                                  !.prices = Append(@, s.price)]
              /\ UNCHANGED <<pc, error>>
  /\ UNCHANGED <<argv, files, pen_list, time_data, region, usage_data, results>>

\* ---------------------------------------------------------- specifications
NextRegion ==
  \/ RegionInit
  \/ CreateSolarHouse
  \/ CreateNonSolarHouse
  \/ RegionFinish
  \/ SimulationDataReturn

Next ==
  \/ MainAnnualPenetration
  \/ NextRegion
  \/ CalculateImpact
  \/ PrintCsv

NextWholesale == WholesaleRowStep

Spec == Init /\ [][Next]_vars

SpecRegion == InitRegion /\ [][NextRegion]_vars

SpecWholesale == InitWholesale /\ [][NextWholesale]_vars

\* ------------------------------------------------------------------ claims
Solar(hs) == {k \in 1..Len(hs) : hs[k].has_solar}

NonSolar(hs) == {k \in 1..Len(hs) : ~hs[k].has_solar}

\* floor(x) of a finite value
Floor(x) == x[1] \div x[2]

InUnit(p) == FLeq(R(0), p) /\ FLeq(p, R(1))

Max0(x) == IF x > 0 THEN x ELSE 0

DemandOf(h) == Column(HouseDemandFrame(h, usage_data), "elec_demand")

\* C1: once create_households has run for a penetration in [0,1], the Region
\* holds floor(num_houses * solar_pen) solar Houses and num_houses minus that
\* many non-solar Houses, num_houses Houses in all.
C1_HouseholdSplit ==
  (region.built /\ InUnit(region.solar_pen)) =>
    LET n == region.num_houses
        f == Floor(FMul(R(n), region.solar_pen))
    IN  /\ Cardinality(Solar(region.households)) = f
        /\ Cardinality(NonSolar(region.households)) = n - f
        /\ Len(region.households) = n
        /\ region.i + region.j = n

C1_Witness ==
  /\ region.built
  /\ region.solar_pen = <<3, 4>>
  /\ region.num_houses = 2
  /\ region.households[1].has_solar
  /\ ~region.households[2].has_solar

\* C2: at every hour the net demand of a solar House is max(usage -
\* production, 0), that of a non-solar House is the usage, and both are >= 0.
C2_NetDemand ==
  \A k \in 1..Len(region.households) :
    LET h == region.households[k]
        d == DemandOf(h)
    IN  /\ Len(d) = NumHours
        /\ \A t \in Hours :
             /\ h.has_solar => d[t] = Max0(files.usage[t] - files.prod[t][2])
             /\ ~h.has_solar => d[t] = files.usage[t]
             /\ d[t] >= 0

C2_Witness ==
  /\ region.built
  /\ Len(region.households) = 2
  /\ region.households[1].has_solar
  /\ ~region.households[2].has_solar
  /\ \E t \in Hours : /\ files.prod[t][2] > files.usage[t]
                      /\ files.usage[t] > 0
                      /\ DemandOf(region.households[1])[t] = 0
  /\ \E t \in Hours : DemandOf(region.households[1])[t] > 0

\* C3 (as claimed): calculate_impact yields a row for every year with the four
\* derived columns as given, and a metric whose divisor (solar_houses, demand)
\* is 0 for a year is nan for that year.
C3_Original ==
  (pc \in {"print_csv", "done"}) =>
    /\ Len(time_data.profit_loss) = Len(time_data.profit)
    /\ \A y \in 1..Len(time_data.profit) :
         LET loss == FSub(time_data.profit[1], time_data.profit[y])
         IN  /\ time_data.profit_loss[y] = loss
             /\ time_data.fixed_increase_all_houses[y] =
                  NpDiv(loss, time_data.number_houses[y])
             /\ time_data.solar_houses[y] = R(0) =>
                  IsNaN(time_data.fixed_increase_solar_houses[y])
             /\ time_data.demand[y] = R(0) =>
                  IsNaN(time_data.variable_increase[y])

AllCells(row, v) == \A y \in 1..Len(row) : row[y] = v

ZeroRun == argv.ssa_i = R(0) /\ argv.ssa_t = R(0) /\ argv.time_horizon = 2

\* C4 (as claimed): the run with initial_ssa = final_ssa = 0 and horizon 2
\* writes three derived-increase rows that are zero for every year.
C4_Original ==
  (pc = "done" /\ ZeroRun) =>
    /\ AllCells(results[2], R(0))
    /\ AllCells(results[3], R(0))
    /\ AllCells(results[4], R(0))

\* C4 (amended): in that run every row has three cells; the row
\* fixed_increase_solar_houses is nan for every year (0/0, no House has solar);
\* the rows fixed_increase_all_houses and variable_increase are zero for every
\* year when the household count, resp. the annual demand and the utility
\* price, is not zero, and nan when it is.
C4_ZeroRunRows ==
  (pc = "done" /\ ZeroRun) =>
    /\ \A k \in 1..4 : Len(results[k]) = 3
    /\ results[1] = <<0, 1, 2>>
    /\ AllCells(results[2], IF files.households = 0 THEN NaN ELSE R(0))
    /\ AllCells(results[3], NaN)
    /\ AllCells(results[4],
                IF region.annual_demand = 0 \/ files.utility = R(0)
                THEN NaN ELSE R(0))

C4_Witness ==
  /\ pc = "done"
  /\ ZeroRun
  /\ files.households = MaxHouses
  /\ region.annual_demand > 0
  /\ results[2] = <<R(0), R(0), R(0)>>
  /\ results[3] = <<NaN, NaN, NaN>>

\* C5 (as claimed): a run whose time horizon is <= 0 aborts in
\* annual_penetration: it never gets past that step, so no schedule (empty or
\* not) is returned, no Region is built and no later step runs.
C5_Original ==
  (argv.time_horizon <= 0) =>
    /\ pc \in {"annual_penetration", "aborted"}
    /\ pc = "aborted" => error.at = "annual_penetration"

\* C6: a Region built with solar_pen = 0 has only non-solar Houses, its total
\* demand at an hour is the sum over its num_houses Houses of the raw usage at
\* that hour, and its annual profit is the sum of total_demand * (utility -
\* wholesale / 1000) plus the sum of the fixed prices.
C6_ZeroPenetration ==
  (region.built /\ region.solar_pen = R(0)) =>
    LET n == region.num_houses
        td == [t \in Hours |-> SumInt([k \in 1..n |-> files.usage[t]])]
        energy == [t \in Hours |->
                     FMul(R(td[t]),
                          FSub(region.utility_prices[t],
                               PyDiv(region.wholesale_prices[t], R(1000))))]
    IN  /\ Len(region.households) = n
        /\ Solar(region.households) = {}
        /\ region.region_data.total_demand = td
        /\ region.annual_demand = SumInt(td)
        /\ region.annual_profit =
             FAdd(SumF(energy), SumF(region.fixed_prices))

C6_Witness ==
  /\ region.built
  /\ region.solar_pen = R(0)
  /\ region.num_houses = 2
  /\ \A t \in Hours : files.usage[t] > 0
  /\ region.wholesale_prices[NumHours] = R(50)
  /\ region.annual_demand = 2 * SumInt(files.usage)

C8_Original ==
  (argv.time_horizon >= 1) =>
    /\ \A y \in 1..Len(pen_list) : InUnit(pen_list[y])
    /\ Len(region.households) <= region.num_houses

\* C9 (as claimed): the construction of a House leaves the shared usage frame
\* as it was, labels included, and changes no attribute of a House built
\* before it.
C9_Original ==
  [][(Len(region'.households) = Len(region.households) + 1) =>
       /\ usage_data' = usage_data
       /\ \A k \in 1..Len(region.households) :
            /\ region'.households[k] = region.households[k]
            /\ HouseDemandFrame(region.households[k], usage_data') =
                 HouseDemandFrame(region.households[k], usage_data)]_vars

\* the price of the latest sparse point at or before hour t, the first
\* point's price before the first point
HeldPrice(trade, t) ==
  LET past == {k \in 1..Len(trade) : trade[k][1] <= t}
  IN  IF past = {} THEN trade[1][2]
      ELSE trade[CHOOSE k \in past : \A m \in past : m <= k][2]

\* C10 (as claimed): in the densification loop the index into the sparse list
\* stays in bounds and the price of every hour filled so far is the price of
\* the latest sparse point at or before that hour.
C10_Original ==
  (pc = "get_wholesale_prices" \/ wp.raised) =>
    /\ ~wp.raised
    /\ wp.trade_price_ct >= 0
    /\ wp.trade_price_ct < Len(wp.trade)
    /\ \A t \in 1..Len(wp.prices) : wp.prices[t] = HeldPrice(wp.trade, t)

====
